---- MODULE Spec2Model ----
(***************************************************************************)
(* ai-token-estimator: the model registry (src/src/models.ts) and the      *)
(* estimator (src/src/estimator.ts).                                       *)
(*                                                                         *)
(* JavaScript numbers are modelled as exact rationals in lowest terms,     *)
(* [type |-> "number", n, d] with d > 0, next to the values NaN,          *)
(* Infinity and undefined, each a record too.  For the character counts and the  *)
(* ratios of the registry (4 and 3.5, both exact binary fractions) the     *)
(* IEEE-754 quotient count / charsPerToken lies on the same side of every  *)
(* integer and of every half-integer as the exact quotient, so Math.ceil,  *)
(* Math.round and Math.floor return the integers computed here.            *)
(* estimatedInputCost is the exact value of tokens * price / 1,000,000;     *)
(* the double the code returns is that value rounded, and is 0 exactly     *)
(* when the exact value is 0.                                              *)
(*                                                                         *)
(* A string is the sequence of its 16-bit code units; a code unit is one   *)
(* of three classes: "a" (a unit that is no surrogate), "H" (a high        *)
(* surrogate) and "L" (a low surrogate).                                   *)
(***************************************************************************)
EXTENDS Integers, Sequences, FiniteSets, TLC

\* text, model: the text and the model identifier the calls are made with.
\* DEFAULT_MODELS: the exported table.
\* out: the latest call of estimate, its rounding argument and its outcome.
\* first: the first call of estimate, where the specification keeps it.
\* repeated: whether estimate was called again after the first call, where
\* the specification keeps the first call.
\* last: the latest call of getModelConfig or getAvailableModels and its outcome.
\* attempt: the latest attempt to change the table and its outcome.
\* running: the calls of estimate that run statement by statement, where the
\* specification has calls in progress at the same time: for each its place in
\* the function, its argument and its local variables.
\* held: the list getAvailableModels returned last, as the caller holds it,
\* where the specification has callers that change the lists they get.
\* run: the run of the pricing-update script: its place in main, the merged
\* table allModels, the providers fetched, what it logged and what it wrote.
VARIABLES text, model, DEFAULT_MODELS, out, first, repeated, last, attempt,
          running, held, run

vars == <<text, model, DEFAULT_MODELS, out, first, repeated, last, attempt,
          running, held, run>>

\* Longest text, in code units, an estimate is asked for.
MaxLen == 4

\* Longest text, in code units, where the callers also try to change the table.
MaxMutLen == 2

\* Longest text, in code units, where calls of estimate are in progress at the
\* same time.
MaxConcLen == 2

\* Longest text, in code units, where estimate is called with one text after
\* another.
MaxPairLen == 2

\* Longest text, in code units, where the callers change the lists they get.
MaxHeldLen == 1

\* Most models one extraction of a provider's pricing page returns.
MaxScraped == 1

(***************************************************************************)
(* Numbers                                                                 *)
(***************************************************************************)
RECURSIVE GCD(_, _)
GCD(a, b) == IF b = 0 THEN a ELSE GCD(b, a % b)

Abs(n) == IF n < 0 THEN -n ELSE n

\* The number n / d (d > 0), in lowest terms.
Num(n, d) ==
    LET g == GCD(Abs(n), d) IN [type |-> "number", n |-> n \div g, d |-> d \div g]

NaN == [type |-> "NaN"]
Infinity == [type |-> "Infinity"]
Undefined == [type |-> "undefined"]

IsNum(v) == v.type = "number"

\* ToNumber: undefined converts to NaN, a number to itself.
ToNumber(v) == IF v = Undefined THEN NaN ELSE v

\* a / b of two JavaScript values (b >= 0 in every use).
Div(a, b) ==
    LET x == ToNumber(a)
        y == ToNumber(b)
    IN  IF x = NaN \/ y = NaN THEN NaN
        ELSE IF x = Infinity THEN (IF y = Infinity THEN NaN ELSE Infinity)
        ELSE IF y = Infinity THEN Num(0, 1)
        ELSE IF y.n = 0 THEN (IF x.n = 0 THEN NaN ELSE Infinity)
        ELSE Num(x.n * y.d, x.d * y.n)

\* a * b of two JavaScript values (both >= 0 in every use).
Mul(a, b) ==
    LET x == ToNumber(a)
        y == ToNumber(b)
    IN  IF x = NaN \/ y = NaN THEN NaN
        ELSE IF x = Infinity THEN (IF IsNum(y) /\ y.n = 0 THEN NaN ELSE Infinity)
        ELSE IF y = Infinity THEN (IF x.n = 0 THEN NaN ELSE Infinity)
        ELSE Num(x.n * y.n, x.d * y.d)

\* Math.floor(x) + 1 in place of Math.ceil(x).
MathCeilFloorPlusOne(v) ==
    LET x == ToNumber(v)
    IN  IF IsNum(x) THEN Num((x.n \div x.d) + 1, 1) ELSE x

\* Round half down, ceil(x - 1/2), in place of round half up.
MathRoundHalfDown(v) ==
    LET x == ToNumber(v)
    IN  IF IsNum(x) THEN Num(-((x.d - 2 * x.n) \div (2 * x.d)), 1) ELSE x

\* Math.floor, Math.ceil, Math.round (round half up: floor(x + 1/2)).
MathFloor(v) ==
    LET x == ToNumber(v)
    IN  IF IsNum(x) THEN Num(x.n \div x.d, 1) ELSE x

MathCeil(v) ==
    LET x == ToNumber(v)
    IN  IF IsNum(x) THEN Num(-((-x.n) \div x.d), 1) ELSE x

MathRound(v) ==
    LET x == ToNumber(v)
    IN  IF IsNum(x) THEN Num((2 * x.n + x.d) \div (2 * x.d), 1) ELSE x

(***************************************************************************)
(* Objects: own properties in insertion order, and the frozen flag.        *)
(***************************************************************************)
Obj(ks, ps) == [type |-> "object", keys |-> ks, props |-> ps, frozen |-> FALSE]

\* Object.freeze(o)
ObjectFreeze(o) == [o EXCEPT !.frozen = TRUE]

\* Object.keys(o): the own keys, in insertion order.
ObjectKeys(o) == o.keys

OwnKeys(o) == {o.keys[i] : i \in 1..Len(o.keys)}

\* What every object literal inherits from Object.prototype.
FunctionObject(name) == Obj(<<"name">>, [name |-> name])
ObjectPrototype ==
    [p \in {"constructor", "toString", "hasOwnProperty"} |->
        FunctionObject(IF p = "constructor" THEN "Object" ELSE p)]

\* o[k]: an own property, else an inherited one, else undefined.
Get(o, k) ==
    IF k \in OwnKeys(o) THEN o.props[k]
    ELSE IF k \in DOMAIN ObjectPrototype THEN ObjectPrototype[k]
    ELSE Undefined

\* !v for the values a lookup in the table yields.
Falsy(v) == v = Undefined

Config(cpt, price) ==
    Obj(<<"charsPerToken", "inputCostPerMillion">>,
        [charsPerToken |-> cpt, inputCostPerMillion |-> price])

(***************************************************************************)
(* models.ts: the table, frozen at module load.                            *)
(***************************************************************************)
\* The table with an entry whose ratio was left 0.
modelsZeroRatio ==
    Obj(<<"gpt-4o", "gpt-4o-mini", "gpt-4.1", "gpt-4.1-mini",
          "claude-opus-4.5", "claude-sonnet-4", "claude-haiku-3.5">>,
        [k \in {"gpt-4o", "gpt-4o-mini", "gpt-4.1", "gpt-4.1-mini",
                "claude-opus-4.5", "claude-sonnet-4", "claude-haiku-3.5"} |->
            CASE k = "gpt-4o"           -> Config(Num(4, 1), Num(5, 2))
              [] k = "gpt-4o-mini"      -> Config(Num(4, 1), Num(3, 20))
              [] k = "gpt-4.1"          -> Config(Num(0, 1), Num(3, 1))
              [] k = "gpt-4.1-mini"     -> Config(Num(4, 1), Num(2, 5))
              [] k = "claude-opus-4.5"  -> Config(Num(7, 2), Num(5, 1))
              [] k = "claude-sonnet-4"  -> Config(Num(7, 2), Num(3, 1))
              [] k = "claude-haiku-3.5" -> Config(Num(7, 2), Num(4, 5))])

models ==
    Obj(<<"gpt-4o", "gpt-4o-mini", "gpt-4.1", "gpt-4.1-mini",
          "claude-opus-4.5", "claude-sonnet-4", "claude-haiku-3.5">>,
        [k \in {"gpt-4o", "gpt-4o-mini", "gpt-4.1", "gpt-4.1-mini",
                "claude-opus-4.5", "claude-sonnet-4", "claude-haiku-3.5"} |->
            CASE k = "gpt-4o"           -> Config(Num(4, 1), Num(5, 2))
              [] k = "gpt-4o-mini"      -> Config(Num(4, 1), Num(3, 20))
              [] k = "gpt-4.1"          -> Config(Num(4, 1), Num(3, 1))
              [] k = "gpt-4.1-mini"     -> Config(Num(4, 1), Num(2, 5))
              [] k = "claude-opus-4.5"  -> Config(Num(7, 2), Num(5, 1))
              [] k = "claude-sonnet-4"  -> Config(Num(7, 2), Num(3, 1))
              [] k = "claude-haiku-3.5" -> Config(Num(7, 2), Num(4, 5))])

\* Object.values(models).forEach((config) => Object.freeze(config))
FreezeValues(o) ==
    [o EXCEPT !.props = [k \in DOMAIN o.props |-> ObjectFreeze(o.props[k])]]

\* Object.freeze(models) alone: the table frozen, its configs not.
LoadModelsShallow == ObjectFreeze(models)

\* export const DEFAULT_MODELS = Object.freeze(models)
LoadModels == ObjectFreeze(FreezeValues(models))

(***************************************************************************)
(* Outcomes of a call: a returned value or a thrown error.                 *)
(***************************************************************************)
None == [kind |-> "none"]
Return(v) == [kind |-> "return", value |-> v]
Throw(e, m) == [kind |-> "throw", error |-> e, message |-> m]

\* keys.join(', '): the pieces of the joined string, in order.
RECURSIVE Join(_, _)
Join(ks, sep) ==
    IF ks = <<>> THEN <<>>
    ELSE IF Len(ks) = 1 THEN ks
    ELSE <<Head(ks), sep>> \o Join(Tail(ks), sep)

\* `Unknown model: "${model}". Available models: ${available}`
UnknownModelMessage(m, available) ==
    <<"Unknown model: \"", m, "\". Available models: ">> \o available

\* The code units the registered identifiers are written with, in the order
\* of their values ('-' 45, '.' 46, '0'..'9' 48..57, 'a'..'z' 97..122).
Alphabet ==
    <<"-", ".", "0", "1", "2", "3", "4", "5", "6", "7", "8", "9",
      "a", "b", "c", "d", "e", "f", "g", "h", "i", "j", "k", "l", "m",
      "n", "o", "p", "q", "r", "s", "t", "u", "v", "w", "x", "y", "z">>

CodeUnitRank(c) == CHOOSE i \in 1..Len(Alphabet) : Alphabet[i] = c

\* The code units of a registered identifier.
Spell(k) ==
    CASE k = "gpt-4o"           -> <<"g", "p", "t", "-", "4", "o">>
      [] k = "gpt-4o-mini"      -> <<"g", "p", "t", "-", "4", "o", "-", "m", "i", "n", "i">>
      [] k = "gpt-4.1"          -> <<"g", "p", "t", "-", "4", ".", "1">>
      [] k = "gpt-4.1-mini"     -> <<"g", "p", "t", "-", "4", ".", "1", "-", "m", "i", "n", "i">>
      [] k = "claude-opus-4.5"  -> <<"c", "l", "a", "u", "d", "e", "-", "o", "p", "u", "s", "-", "4", ".", "5">>
      [] k = "claude-sonnet-4"  -> <<"c", "l", "a", "u", "d", "e", "-", "s", "o", "n", "n", "e", "t", "-", "4">>
      [] k = "claude-haiku-3.5" -> <<"c", "l", "a", "u", "d", "e", "-", "h", "a", "i", "k", "u", "-", "3", ".", "5">>

\* s.startsWith(prefix), on code units.
StartsWith(units, prefix) ==
    /\ Len(units) >= Len(prefix)
    /\ SubSeq(units, 1, Len(prefix)) = prefix

\* a < b for two strings: the comparison of Array.prototype.sort() without a
\* comparator, by code units, a proper prefix first.
RECURSIVE UnitsBefore(_, _)
UnitsBefore(a, b) ==
    IF b = <<>> THEN FALSE
    ELSE IF a = <<>> THEN TRUE
    ELSE IF Head(a) = Head(b) THEN UnitsBefore(Tail(a), Tail(b))
    ELSE CodeUnitRank(Head(a)) < CodeUnitRank(Head(b))

Before(a, b) == UnitsBefore(Spell(a), Spell(b))

\* keys.sort()
RECURSIVE InsertSorted(_, _)
InsertSorted(k, ks) ==
    IF ks = <<>> THEN <<k>>
    ELSE IF Before(k, Head(ks)) THEN <<k>> \o ks
    ELSE <<Head(ks)>> \o InsertSorted(k, Tail(ks))

RECURSIVE Sort(_)
Sort(ks) == IF ks = <<>> THEN <<>> ELSE InsertSorted(Head(ks), Sort(Tail(ks)))

\* getModelConfig listing Object.keys(DEFAULT_MODELS).sort() in its error.
getModelConfigSorted(m) ==
    LET config == Get(DEFAULT_MODELS, m)
    IN  IF Falsy(config)
        THEN LET available == Join(Sort(ObjectKeys(DEFAULT_MODELS)), ", ")
             IN  Throw("Error", UnknownModelMessage(m, available))
        ELSE Return(config)

\* model.trim().toLowerCase() for the identifiers that differ from a
\* registered one in letter case or by surrounding whitespace.
TrimLowerCase(m) ==
    CASE m = "GPT-4o"  -> "gpt-4o"
      [] m = " gpt-4o" -> "gpt-4o"
      [] OTHER         -> m

\* getModelConfig looking up the identifier trimmed and in lower case.
getModelConfigNormalizing(m) ==
    LET config == Get(DEFAULT_MODELS, TrimLowerCase(m))
    IN  IF Falsy(config)
        THEN LET available == Join(ObjectKeys(DEFAULT_MODELS), ", ")
             IN  Throw("Error", UnknownModelMessage(m, available))
        ELSE Return(config)

getModelConfig(m) ==
    LET config == Get(DEFAULT_MODELS, m)
    IN  IF Falsy(config)
        THEN LET available == Join(ObjectKeys(DEFAULT_MODELS), ", ")
             IN  Throw("Error", UnknownModelMessage(m, available))
        ELSE Return(config)

getAvailableModels == Return(ObjectKeys(DEFAULT_MODELS))

(***************************************************************************)
(* estimator.ts                                                            *)
(***************************************************************************)
\* text.length in place of the iteration: the code units.
countCodeUnits(t) == Len(t)

\* A count that takes every high surrogate together with the unit after it,
\* whatever that unit is.
RECURSIVE countSkipAfterHigh(_)
countSkipAfterHigh(t) ==
    IF t = <<>> THEN 0
    ELSE IF Len(t) >= 2 /\ t[1] = "H"
         THEN 1 + countSkipAfterHigh(SubSeq(t, 3, Len(t)))
         ELSE 1 + countSkipAfterHigh(Tail(t))

\* for (const _char of text) count++ : the string iterator yields one code
\* point per step, two code units when a high surrogate is followed by a low
\* surrogate and one code unit otherwise.
RECURSIVE countCodePoints(_)
countCodePoints(t) ==
    IF t = <<>> THEN 0
    ELSE IF Len(t) >= 2 /\ t[1] = "H" /\ t[2] = "L"
         THEN 1 + countCodePoints(SubSeq(t, 3, Len(t)))
         ELSE 1 + countCodePoints(Tail(t))

\* A default of 'floor' in place of 'ceil'.
RoundingOfFloorDefault(input) ==
    IF input.rounding = "undefined" THEN "floor" ELSE input.rounding

\* A default kept in a variable of the module and overwritten by every call
\* that names a rounding: a call without one takes the previous call's.
RoundingOfSticky(input) ==
    IF input.rounding = "undefined"
    THEN (IF out.rounding \in {"none", "undefined"} THEN "ceil" ELSE out.rounding)
    ELSE input.rounding

\* const { text, model, rounding = 'ceil' } = input
RoundingOf(input) ==
    IF input.rounding = "undefined" THEN "ceil" ELSE input.rounding

\* case 'floor' without its break: it falls through to case 'round'.
ApplyRoundingNoBreak(rounding, rawTokens) ==
    CASE rounding = "floor" -> MathRound(rawTokens)
      [] rounding = "round" -> MathRound(rawTokens)
      [] OTHER              -> MathCeil(rawTokens)

\* The bodies of case 'floor' and case 'ceil' exchanged.
ApplyRoundingSwapped(rounding, rawTokens) ==
    CASE rounding = "floor" -> MathCeil(rawTokens)
      [] rounding = "round" -> MathRound(rawTokens)
      [] OTHER              -> MathFloor(rawTokens)

\* A switch whose default branch is apart from case 'ceil' and rounds to the
\* nearest integer.
ApplyRoundingDefaultRound(rounding, rawTokens) ==
    CASE rounding = "floor" -> MathFloor(rawTokens)
      [] rounding = "ceil"  -> MathCeil(rawTokens)
      [] OTHER              -> MathRound(rawTokens)

\* switch (rounding) { case 'floor' ... case 'round' ... case 'ceil': default: }
ApplyRounding(rounding, rawTokens) ==
    CASE rounding = "floor" -> MathFloor(rawTokens)
      [] rounding = "round" -> MathRound(rawTokens)
      [] OTHER              -> MathCeil(rawTokens)

\* The cost rounded to cents: Math.round(cost * 100) / 100.
InputCostInCents(estimatedTokens, config) ==
    Div(MathRound(Mul(Div(Mul(estimatedTokens, Get(config, "inputCostPerMillion")),
                          Num(1000000, 1)),
                      Num(100, 1))),
        Num(100, 1))

\* (estimatedTokens * config.inputCostPerMillion) / 1_000_000
InputCost(estimatedTokens, config) ==
    Div(Mul(estimatedTokens, Get(config, "inputCostPerMillion")),
        Num(1000000, 1))

\* estimate with the cost computed from rawTokens, before the rounding.
estimateCostFromRaw(input) ==
    LET rounding == RoundingOf(input)
        looked == getModelConfig(input.model)
    IN  IF looked.kind = "throw" THEN looked
        ELSE
        LET config == looked.value
            characterCount == Num(countCodePoints(input.text), 1)
            rawTokens == Div(characterCount, Get(config, "charsPerToken"))
            estimatedTokens == ApplyRounding(rounding, rawTokens)
            estimatedInputCost == InputCost(rawTokens, config)
        IN  Return([model |-> input.model,
                    characterCount |-> characterCount,
                    estimatedTokens |-> estimatedTokens,
                    estimatedInputCost |-> estimatedInputCost,
                    charsPerToken |-> Get(config, "charsPerToken")])

\* estimate with a default branch of the switch that throws for a rounding
\* that is none of 'floor', 'round', 'ceil'.
estimateStrictRounding(input) ==
    LET rounding == RoundingOf(input)
        looked == getModelConfig(input.model)
    IN  IF looked.kind = "throw" THEN looked
        ELSE IF rounding \notin {"floor", "round", "ceil"}
        THEN Throw("Error", <<"Unknown rounding: ", rounding>>)
        ELSE
        LET config == looked.value
            characterCount == Num(countCodePoints(input.text), 1)
            rawTokens == Div(characterCount, Get(config, "charsPerToken"))
            estimatedTokens == ApplyRounding(rounding, rawTokens)
            estimatedInputCost == InputCost(estimatedTokens, config)
        IN  Return([model |-> input.model,
                    characterCount |-> characterCount,
                    estimatedTokens |-> estimatedTokens,
                    estimatedInputCost |-> estimatedInputCost,
                    charsPerToken |-> Get(config, "charsPerToken")])

\* estimate returning the ratio of the first entry of the table in place of
\* the ratio of the entry it looked up.
estimateFirstRatio(input) ==
    LET rounding == RoundingOf(input)
        looked == getModelConfig(input.model)
    IN  IF looked.kind = "throw" THEN looked
        ELSE
        LET config == looked.value
            characterCount == Num(countCodePoints(input.text), 1)
            rawTokens == Div(characterCount, Get(config, "charsPerToken"))
            estimatedTokens == ApplyRounding(rounding, rawTokens)
            estimatedInputCost == InputCost(estimatedTokens, config)
        IN  Return([model |-> input.model,
                    characterCount |-> characterCount,
                    estimatedTokens |-> estimatedTokens,
                    estimatedInputCost |-> estimatedInputCost,
                    charsPerToken |->
                        Get(Get(DEFAULT_MODELS, Head(ObjectKeys(DEFAULT_MODELS))),
                            "charsPerToken")])

\* estimate dividing text.length, the code units, while it reports the code
\* points as characterCount.
estimateDividesLength(input) ==
    LET rounding == RoundingOf(input)
        looked == getModelConfig(input.model)
    IN  IF looked.kind = "throw" THEN looked
        ELSE
        LET config == looked.value
            characterCount == Num(countCodePoints(input.text), 1)
            rawTokens == Div(Num(Len(input.text), 1), Get(config, "charsPerToken"))
            estimatedTokens == ApplyRounding(rounding, rawTokens)
            estimatedInputCost == InputCost(estimatedTokens, config)
        IN  Return([model |-> input.model,
                    characterCount |-> characterCount,
                    estimatedTokens |-> estimatedTokens,
                    estimatedInputCost |-> estimatedInputCost,
                    charsPerToken |-> Get(config, "charsPerToken")])

estimate(input) ==
    LET rounding == RoundingOf(input)
        looked == getModelConfig(input.model)
    IN  IF looked.kind = "throw" THEN looked
        ELSE
        LET config == looked.value
            characterCount == Num(countCodePoints(input.text), 1)
            rawTokens == Div(characterCount, Get(config, "charsPerToken"))
            estimatedTokens == ApplyRounding(rounding, rawTokens)
            estimatedInputCost == InputCost(estimatedTokens, config)
        IN  Return([model |-> input.model,
                    characterCount |-> characterCount,
                    estimatedTokens |-> estimatedTokens,
                    estimatedInputCost |-> estimatedInputCost,
                    charsPerToken |-> Get(config, "charsPerToken")])

(***************************************************************************)
(* The callers' inputs.                                                    *)
(***************************************************************************)
CodeUnits == {"a", "H", "L"}
Texts == UNION {[1..n -> CodeUnits] : n \in 0..MaxLen}

\* The registered identifiers and some that are not registered.
ModelIds ==
    OwnKeys(models) \cup {"unknown-model", "GPT-4o", " gpt-4o", "constructor"}

\* "undefined": no rounding given; "up": a value that is none of the three.
Roundings == {"ceil", "round", "floor", "undefined", "up"}

\* What a caller tries to write into the registry.
NewConfig == Config(Num(5, 1), Num(10, 1))
NewValue == Num(999, 1)

(***************************************************************************)
(* Assignments and deletions on an object, in strict mode (the package is  *)
(* an ES module): on a frozen object they throw a TypeError and change     *)
(* nothing.                                                                *)
(***************************************************************************)
\* o[k] = v
SetProp(o, k, v) ==
    IF o.frozen THEN o
    ELSE [type |-> "object",
          keys |-> IF k \in OwnKeys(o) THEN o.keys ELSE Append(o.keys, k),
          props |-> [j \in OwnKeys(o) \cup {k} |->
                        IF j = k THEN v ELSE o.props[j]],
          frozen |-> o.frozen]

\* delete o[k]
DeleteProp(o, k) ==
    IF o.frozen \/ k \notin OwnKeys(o) THEN o
    ELSE [type |-> "object",
          keys |-> SelectSeq(o.keys, LAMBDA j : j # k),
          props |-> [j \in OwnKeys(o) \ {k} |-> o.props[j]],
          frozen |-> o.frozen]

MutationOutcome(o) ==
    IF o.frozen THEN Throw("TypeError", <<>>) ELSE Return(Undefined)

NoCall == [rounding |-> "none", outcome |-> None]

\* The pricing-update script before main runs.  allModels and the three
\* groups of the generated file are sequences of entries, in insertion order.
NotStarted ==
    [pc |-> "main", next |-> 1, allModels |-> <<>>, fetched |-> <<>>,
     failed |-> {}, latest |-> [type |-> "null"], added |-> {},
     updatedCount |-> 0, addedCount |-> 0,
     file |-> [type |-> "null"], readme |-> [type |-> "null"]]

\* No list returned yet.  given: the caller holds a list; changed: the caller
\* has changed a list it was given.
NoList == [given |-> FALSE, items |-> <<>>, changed |-> FALSE]

\* The calls of estimate that can be in progress at the same time.
Calls == {"call1", "call2"}

\* A call not begun: no argument, its locals not initialised.
Idle ==
    [pc |-> "idle", input |-> "none", met |-> FALSE, rounding |-> "none",
     config |-> Undefined, characterCount |-> Undefined,
     rawTokens |-> Undefined, estimatedTokens |-> Undefined,
     estimatedInputCost |-> Undefined, outcome |-> None]

Init ==
    /\ text \in Texts
    /\ model \in ModelIds
    /\ DEFAULT_MODELS = LoadModels
    /\ out = NoCall
    /\ first = NoCall
    /\ repeated = FALSE
    /\ last = [op |-> "none", outcome |-> None]
    /\ attempt = [op |-> "none", outcome |-> None]
    /\ running = [c \in Calls |-> Idle]
    /\ held = NoList
    /\ run = NotStarted

Call(r) ==
    [rounding |-> r,
     outcome |-> estimate([text |-> text, model |-> model, rounding |-> r])]

\* estimate({ text, model, rounding })
Estimate(r) ==
    /\ out' = Call(r)
    /\ UNCHANGED <<text, model, run, running, held, DEFAULT_MODELS, first, repeated, last, attempt>>

\* estimate({ text, model, rounding }), the first call kept
EstimateKept(r) ==
    /\ out' = Call(r)
    /\ first' = IF first = NoCall THEN Call(r) ELSE first
    /\ repeated' = (first # NoCall)
    /\ UNCHANGED <<text, model, run, running, held, DEFAULT_MODELS, last, attempt>>

\* getModelConfig with a fallback that registers the identifier it did not
\* find, in a table left unfrozen: DEFAULT_MODELS[model] = { ... }.
GetModelConfigRegistering ==
    /\ last' = [op |-> "getModelConfig", outcome |-> getModelConfig(model)]
    /\ DEFAULT_MODELS' =
          IF model \in OwnKeys(DEFAULT_MODELS) THEN DEFAULT_MODELS
          ELSE [DEFAULT_MODELS EXCEPT
                  !.keys = Append(@, model),
                  !.props = [j \in OwnKeys(DEFAULT_MODELS) \cup {model} |->
                               IF j = model THEN NewConfig ELSE @[j]]]
    /\ UNCHANGED <<text, model, run, running, held, out, first, repeated, attempt>>

\* getModelConfig(model)
GetModelConfig ==
    /\ last' = [op |-> "getModelConfig", outcome |-> getModelConfig(model)]
    /\ UNCHANGED <<text, model, run, running, held, DEFAULT_MODELS, out, first, repeated, attempt>>

\* getAvailableModels()
GetAvailableModels ==
    /\ last' = [op |-> "getAvailableModels", outcome |-> getAvailableModels]
    /\ UNCHANGED <<text, model, run, running, held, DEFAULT_MODELS, out, first, repeated, attempt>>

\* DEFAULT_MODELS[k] = { ... } for a key k the table does not have
AddEntry ==
    /\ DEFAULT_MODELS' = SetProp(DEFAULT_MODELS, "new-model", NewConfig)
    /\ attempt' = [op |-> "add", outcome |-> MutationOutcome(DEFAULT_MODELS)]
    /\ UNCHANGED <<text, model, run, running, held, out, first, repeated, last>>

\* DEFAULT_MODELS[k] = { ... } for a key k of the table
ReplaceEntry(k) ==
    /\ k \in OwnKeys(DEFAULT_MODELS)
    /\ DEFAULT_MODELS' = SetProp(DEFAULT_MODELS, k, NewConfig)
    /\ attempt' = [op |-> "replace", outcome |-> MutationOutcome(DEFAULT_MODELS)]
    /\ UNCHANGED <<text, model, run, running, held, out, first, repeated, last>>

\* delete DEFAULT_MODELS[k]
DeleteEntry(k) ==
    /\ k \in OwnKeys(DEFAULT_MODELS)
    /\ DEFAULT_MODELS' = DeleteProp(DEFAULT_MODELS, k)
    /\ attempt' = [op |-> "delete", outcome |-> MutationOutcome(DEFAULT_MODELS)]
    /\ UNCHANGED <<text, model, run, running, held, out, first, repeated, last>>

\* config.f = v for the config object of key k, obtained from DEFAULT_MODELS[k]
\* or from getModelConfig(k): both are the object the table holds.
AssignField(k, f) ==
    /\ k \in OwnKeys(DEFAULT_MODELS)
    /\ DEFAULT_MODELS' =
          [DEFAULT_MODELS EXCEPT !.props[k] = SetProp(@, f, NewValue)]
    /\ attempt' = [op |-> "assign",
                   outcome |-> MutationOutcome(DEFAULT_MODELS.props[k])]
    /\ UNCHANGED <<text, model, run, running, held, out, first, repeated, last>>

MutationAttempt ==
    \/ AddEntry
    \/ \E k \in OwnKeys(models) : ReplaceEntry(k)
    \/ \E k \in OwnKeys(models) : DeleteEntry(k)
    \/ \E k \in OwnKeys(models) :
          \E f \in {"charsPerToken", "inputCostPerMillion"} : AssignField(k, f)

Next ==
    \/ \E r \in Roundings : Estimate(r)
    \/ GetModelConfig
    \/ GetAvailableModels

\* The operations the package exports.
Spec == Init /\ [][Next]_vars

InitMut == Init /\ Len(text) <= MaxMutLen

NextMut ==
    \/ \E r \in Roundings : Estimate(r)
    \/ GetModelConfig
    \/ GetAvailableModels
    \/ MutationAttempt

\* The operations, and callers that try to change the exported table.
SpecMut == InitMut /\ [][NextMut]_vars

NextKept ==
    \/ \E r \in Roundings : EstimateKept(r)
    \/ GetModelConfig
    \/ GetAvailableModels

\* The read-only operations, the first call of estimate kept next to the latest.
SpecKept == Init /\ [][NextKept]_vars

\* estimate({ text: t, model, rounding: r }) with a text of the caller's choice,
\* the first call kept with its text; a behaviour has two such calls.
EstimateOn(t, r) ==
    /\ ~repeated
    /\ Len(t) <= MaxPairLen
    /\ text' = t
    /\ LET outcome == estimate([text |-> t, model |-> model, rounding |-> r])
       IN  /\ out' = [rounding |-> r, outcome |-> outcome]
           /\ first' = IF first = NoCall
                       THEN [rounding |-> r, outcome |-> outcome, text |-> t]
                       ELSE first
    /\ repeated' = (first # NoCall)
    /\ UNCHANGED <<model, run, running, held, DEFAULT_MODELS, last, attempt>>

InitPair == Init /\ Len(text) <= MaxPairLen

NextPair == \E t \in Texts : \E r \in Roundings : EstimateOn(t, r)

\* Calls of estimate with one model and one text after another.
SpecPair == InitPair /\ [][NextPair]_vars

(***************************************************************************)
(* Callers that change the list getAvailableModels gave them.              *)
(***************************************************************************)
\* One array kept by the module and returned by every call: the array the
\* caller was given before, as it is now.
KeysArrayCached(h, ks) == IF h.given THEN h.items ELSE ks

\* Object.keys(DEFAULT_MODELS): a new array with the keys, whatever list h the
\* caller holds from an earlier call.
KeysArray(h, ks) == ks

\* const list = getAvailableModels()
GetAvailableModelsHeld ==
    /\ LET list == KeysArray(held, getAvailableModels.value)
       IN  /\ held' = [held EXCEPT !.given = TRUE, !.items = list]
           /\ last' = [op |-> "getAvailableModels", outcome |-> Return(list),
                       after |-> held.changed]
    /\ UNCHANGED <<text, model, run, running, DEFAULT_MODELS, out, first, repeated, attempt>>

HeldOnly ==
    UNCHANGED <<text, model, run, running, DEFAULT_MODELS, out, first, repeated, last, attempt>>

\* list.push('intruder')
PushItem ==
    /\ held.given
    /\ "intruder" \notin {held.items[i] : i \in 1..Len(held.items)}
    /\ held' = [held EXCEPT !.items = Append(@, "intruder"), !.changed = TRUE]
    /\ HeldOnly

\* list.pop()
PopItem ==
    /\ held.given
    /\ held.items # <<>>
    /\ held' = [held EXCEPT !.items = SubSeq(@, 1, Len(@) - 1), !.changed = TRUE]
    /\ HeldOnly

\* list.reverse()
ReverseItems ==
    /\ held.given
    /\ Len(held.items) >= 2
    /\ held' = [held EXCEPT
                  !.items = [i \in 1..Len(@) |-> @[Len(@) + 1 - i]],
                  !.changed = TRUE]
    /\ HeldOnly

InitHeld == Init /\ Len(text) <= MaxHeldLen

NextHeld ==
    \/ \E r \in Roundings : Estimate(r)
    \/ GetModelConfig
    \/ GetAvailableModelsHeld
    \/ PushItem
    \/ PopItem
    \/ ReverseItems

\* The operations, and callers that change the lists they were given.
SpecHeld == InitHeld /\ [][NextHeld]_vars

(***************************************************************************)
(* estimate, statement by statement, for calls in progress at the same     *)
(* time.  JavaScript runs each call to completion; the steps below allow   *)
(* every interleaving of the statements of the calls, those of threads     *)
(* sharing the module included.                                            *)
(***************************************************************************)
InProgress(c) == running[c].pc \notin {"idle", "done"}

OnlyRunning ==
    UNCHANGED <<text, model, run, held, DEFAULT_MODELS, out, first, repeated, last, attempt>>

\* const { text, model, rounding = 'ceil' } = input
\* (met: another call is in progress while this one is)
Destructure(c, r) ==
    /\ running[c].pc = "idle"
    /\ running' =
          [d \in Calls |->
              IF d = c
              THEN [running[c] EXCEPT
                      !.pc = "config", !.input = r,
                      !.rounding = RoundingOf([rounding |-> r]),
                      !.met = \E e \in Calls \ {c} : InProgress(e)]
              ELSE IF InProgress(d) THEN [running[d] EXCEPT !.met = TRUE]
              ELSE running[d]]
    /\ OnlyRunning

\* const config = getModelConfig(model)
LookupConfig(c) ==
    /\ running[c].pc = "config"
    /\ LET looked == getModelConfig(model)
       IN  running' =
              [running EXCEPT ![c] =
                  IF looked.kind = "throw"
                  THEN [@ EXCEPT !.pc = "done", !.outcome = looked]
                  ELSE [@ EXCEPT !.pc = "count", !.config = looked.value]]
    /\ OnlyRunning

\* const characterCount = countCodePoints(text)
CountCharacters(c) ==
    /\ running[c].pc = "count"
    /\ running' =
          [running EXCEPT ![c] =
              [@ EXCEPT !.pc = "divide",
                        !.characterCount = Num(countCodePoints(text), 1)]]
    /\ OnlyRunning

\* const rawTokens = characterCount / config.charsPerToken
DivideByRatio(c) ==
    /\ running[c].pc = "divide"
    /\ running' =
          [running EXCEPT ![c] =
              [@ EXCEPT !.pc = "round",
                        !.rawTokens = Div(running[c].characterCount,
                                          Get(running[c].config, "charsPerToken"))]]
    /\ OnlyRunning

\* let estimatedTokens at module level, one variable for all calls: the
\* assignment in the switch is seen by every call that has not returned.
RoundTokensShared(c) ==
    /\ running[c].pc = "round"
    /\ LET tokens == ApplyRounding(running[c].rounding, running[c].rawTokens)
       IN  running' =
              [d \in Calls |->
                  IF d = c
                  THEN [running[c] EXCEPT !.pc = "cost", !.estimatedTokens = tokens]
                  ELSE IF InProgress(d)
                  THEN [running[d] EXCEPT !.estimatedTokens = tokens]
                  ELSE running[d]]
    /\ OnlyRunning

\* let estimatedTokens; switch (rounding) { ... }
RoundTokens(c) ==
    /\ running[c].pc = "round"
    /\ running' =
          [running EXCEPT ![c] =
              [@ EXCEPT !.pc = "cost",
                        !.estimatedTokens = ApplyRounding(running[c].rounding, running[c].rawTokens)]]
    /\ OnlyRunning

\* const estimatedInputCost = (estimatedTokens * config.inputCostPerMillion) / 1_000_000
ComputeCost(c) ==
    /\ running[c].pc = "cost"
    /\ running' =
          [running EXCEPT ![c] =
              [@ EXCEPT !.pc = "return",
                        !.estimatedInputCost = InputCost(running[c].estimatedTokens, running[c].config)]]
    /\ OnlyRunning

\* return { model, characterCount, estimatedTokens, estimatedInputCost, charsPerToken }
ReturnResult(c) ==
    /\ running[c].pc = "return"
    /\ running' =
          [running EXCEPT ![c] =
              [@ EXCEPT !.pc = "done",
                        !.outcome =
                            Return([model |-> model,
                                    characterCount |-> running[c].characterCount,
                                    estimatedTokens |-> running[c].estimatedTokens,
                                    estimatedInputCost |-> running[c].estimatedInputCost,
                                    charsPerToken |-> Get(running[c].config, "charsPerToken")])]]
    /\ OnlyRunning

InitConc == Init /\ Len(text) <= MaxConcLen

NextConc ==
    \E c \in Calls :
        \/ \E r \in Roundings : Destructure(c, r)
        \/ LookupConfig(c)
        \/ CountCharacters(c)
        \/ DivideByRatio(c)
        \/ RoundTokens(c)
        \/ ComputeCost(c)
        \/ ReturnResult(c)

\* Calls of estimate in progress at the same time, their statements interleaved.
SpecConc == InitConc /\ [][NextConc]_vars

(***************************************************************************)
(* scripts/update-pricing.ts: strings, as sequences of their characters.   *)
(***************************************************************************)
UpperCase ==
    <<"A", "B", "C", "D", "E", "F", "G", "H", "I", "J", "K", "L", "M",
      "N", "O", "P", "Q", "R", "S", "T", "U", "V", "W", "X", "Y", "Z">>
LowerCase ==
    <<"a", "b", "c", "d", "e", "f", "g", "h", "i", "j", "k", "l", "m",
      "n", "o", "p", "q", "r", "s", "t", "u", "v", "w", "x", "y", "z">>
Digits == {"0", "1", "2", "3", "4", "5", "6", "7", "8", "9"}

\* s.toLowerCase()
ToLowerCase(s) ==
    [i \in 1..Len(s) |->
        IF \E j \in 1..Len(UpperCase) : UpperCase[j] = s[i]
        THEN LowerCase[CHOOSE j \in 1..Len(UpperCase) : UpperCase[j] = s[i]]
        ELSE s[i]]

\* s.trim()
RECURSIVE TrimStart(_)
TrimStart(s) == IF s # <<>> /\ Head(s) = " " THEN TrimStart(Tail(s)) ELSE s

RECURSIVE TrimEnd(_)
TrimEnd(s) ==
    IF s # <<>> /\ s[Len(s)] = " " THEN TrimEnd(SubSeq(s, 1, Len(s) - 1)) ELSE s

Trim(s) == TrimEnd(TrimStart(s))

\* s.replace(/\s+/g, '-'): every run of spaces becomes one hyphen.
RECURSIVE SpacesToHyphens(_)
SpacesToHyphens(s) ==
    IF s = <<>> THEN <<>>
    ELSE IF Head(s) = " " THEN <<"-">> \o SpacesToHyphens(TrimStart(s))
    ELSE <<Head(s)>> \o SpacesToHyphens(Tail(s))

\* s.endsWith(suffix), s.includes(part)
EndsWith(s, suffix) ==
    /\ Len(s) >= Len(suffix)
    /\ SubSeq(s, Len(s) - Len(suffix) + 1, Len(s)) = suffix

Includes(s, part) ==
    \E i \in 1..(Len(s) - Len(part) + 1) : SubSeq(s, i, i + Len(part) - 1) = part

\* s.replace(/-preview$/, '')
DropPreview(s) ==
    IF EndsWith(s, <<"-", "p", "r", "e", "v", "i", "e", "w">>)
    THEN SubSeq(s, 1, Len(s) - 8)
    ELSE s

\* A string value and null.
Str(s) == [type |-> "string", chars |-> s]
Null == [type |-> "null"]

\* name.match(/^(opus|sonnet|haiku)\s*([\d.]+)?$/): the tier and the version
\* ("" where the version group did not take part), or null.
Tiers == {<<"o", "p", "u", "s">>, <<"s", "o", "n", "n", "e", "t">>,
          <<"h", "a", "i", "k", "u">>}

MatchTier(name) ==
    LET fits == {t \in Tiers :
                    /\ StartsWith(name, t)
                    /\ LET rest == TrimStart(SubSeq(name, Len(t) + 1, Len(name)))
                       IN  \A i \in 1..Len(rest) : rest[i] \in Digits \cup {"."}}
    IN  IF fits = {} THEN Null
        ELSE LET t == CHOOSE u \in fits : TRUE
             IN  [type |-> "match", tier |-> t,
                  version |-> TrimStart(SubSeq(name, Len(t) + 1, Len(name)))]

\* normalizeModelName(provider, rawName)
normalizeModelName(provider, rawName) ==
    LET name == Trim(ToLowerCase(rawName))
    IN  CASE provider = "openai" -> Str(SpacesToHyphens(name))
          [] provider = "anthropic" ->
                LET match == MatchTier(name)
                IN  IF match # Null
                    THEN IF match.version # <<>>
                         THEN Str(<<"c", "l", "a", "u", "d", "e", "-">> \o match.tier
                                  \o <<"-">> \o match.version)
                         ELSE Str(<<"c", "l", "a", "u", "d", "e", "-">> \o match.tier)
                    ELSE IF StartsWith(name, <<"c", "l", "a", "u", "d", "e", "-">>)
                    THEN Str(name)
                    ELSE Null
          [] provider = "google" ->
                IF /\ StartsWith(name, <<"g", "e", "m", "i", "n", "i", "-">>)
                   /\ ~Includes(name, <<"e", "m", "b", "e", "d", "d", "i", "n", "g">>)
                   /\ ~Includes(name, <<"r", "o", "b", "o", "t", "i", "c", "s">>)
                THEN Str(DropPreview(name))
                ELSE Null
          [] OTHER -> Null

(***************************************************************************)
(* scripts/update-pricing.ts: the providers, fetchProviderPricing and the  *)
(* Map of names to configs, a sequence of entries in insertion order.      *)
(***************************************************************************)
\* Object.entries(PROVIDER_URLS): the providers, in the order of the literal.
PROVIDER_URLS == <<"openai", "anthropic", "google">>

CHARS_PER_TOKEN(provider) ==
    CASE provider = "openai"    -> Num(4, 1)
      [] provider = "anthropic" -> Num(7, 2)
      [] provider = "google"    -> Num(4, 1)
      [] OTHER                  -> Undefined

\* ToNumber for the operands of < and >: a string that is no numeral converts
\* to NaN (the strings here are no numerals).
ToNumeric(v) == IF v.type = "string" THEN NaN ELSE ToNumber(v)

\* a < b: false when either operand converts to NaN.
Lt(a, b) ==
    LET x == ToNumeric(a)
        y == ToNumeric(b)
    IN  IF x = NaN \/ y = NaN THEN FALSE
        ELSE IF x = Infinity THEN FALSE
        ELSE IF y = Infinity THEN TRUE
        ELSE x.n * y.d < y.n * x.d

\* a !== b for two prices
StrictNotEqual(a, b) == a = NaN \/ a # b

Entry(name, config) == [name |-> name, config |-> config]

MapKeys(m) == {m[i].name : i \in 1..Len(m)}
MapHas(m, name) == name \in MapKeys(m)
MapGet(m, name) == m[CHOOSE i \in 1..Len(m) : m[i].name = name].config

\* m.set(name, config): the value of an existing key replaced in place, a new
\* key added at the end.
MapSet(m, name, config) ==
    IF MapHas(m, name)
    THEN [i \in 1..Len(m) |-> IF m[i].name = name THEN Entry(name, config) ELSE m[i]]
    ELSE Append(m, Entry(name, config))

\* !normalizedName: null and the empty string.
FalsyName(v) == v = Null \/ v = Str(<<>>)

\* price < 0.01 || price > 500
Suspicious(price) == Lt(price, Num(1, 100)) \/ Lt(Num(500, 1), price)

\* The loop of fetchProviderPricing over result.data.models.
RECURSIVE CollectModels(_, _, _)
CollectModels(found, provider, extracted) ==
    IF extracted = <<>> THEN found
    ELSE LET normalizedName ==
                 normalizeModelName(provider, Head(extracted).model_name)
             price == Head(extracted).input_cost_per_million
         IN  IF FalsyName(normalizedName)
             THEN CollectModels(found, provider, Tail(extracted))
             ELSE IF Suspicious(price)
             THEN CollectModels(found, provider, Tail(extracted))
             ELSE CollectModels(
                      MapSet(found, normalizedName.chars,
                             Config(CHARS_PER_TOKEN(provider), price)),
                      provider, Tail(extracted))

\* fetchProviderPricing(firecrawl, provider, url), given what extract resolved
\* to: the Map of the models it accepts.
fetchProviderPricing(provider, result) ==
    IF ~result.success \/ result.models = Undefined
    THEN <<>>
    ELSE CollectModels(<<>>, provider, result.models.items)

(***************************************************************************)
(* scripts/update-pricing.ts: the generated files.                         *)
(***************************************************************************)
\* entries.sort((a, b) => a[0].localeCompare(b[0])).  localeCompare orders by
\* the locale's collation; the order here is the one by code units.  Both
\* are total orders of the names, and the sort keeps every entry.
RECURSIVE InsertEntry(_, _)
InsertEntry(e, es) ==
    IF es = <<>> THEN <<e>>
    ELSE IF UnitsBefore(e.name, Head(es).name) THEN <<e>> \o es
    ELSE <<Head(es)>> \o InsertEntry(e, Tail(es))

RECURSIVE SortEntries(_)
SortEntries(es) ==
    IF es = <<>> THEN <<>> ELSE InsertEntry(Head(es), SortEntries(Tail(es)))

\* The group of a name: the if / else if chain of groupModelsByProvider.
GroupOf(name) ==
    IF \/ StartsWith(name, <<"g", "p", "t", "-">>)
       \/ StartsWith(name, <<"o", "1">>)
       \/ StartsWith(name, <<"o", "3">>)
       \/ StartsWith(name, <<"o", "4">>)
    THEN "openai"
    ELSE IF StartsWith(name, <<"c", "l", "a", "u", "d", "e", "-">>)
    THEN "anthropic"
    ELSE IF StartsWith(name, <<"g", "e", "m", "i", "n", "i", "-">>)
    THEN "google"
    ELSE "none"

groupModelsByProvider(allModels) ==
    [g \in {"openai", "anthropic", "google"} |->
        SortEntries(SelectSeq(allModels, LAMBDA e : GroupOf(e.name) = g))]

\* generateModelsFile(allModels, timestamp): the table the generated source
\* defines, its entries in the order they are written.
generateModelsFile(allModels, timestamp) ==
    LET groups == groupModelsByProvider(allModels)
    IN  [type |-> "file", LAST_UPDATED |-> timestamp,
         models |-> groups["openai"] \o groups["anthropic"] \o groups["google"]]

\* price.toFixed(2): the price rounded to two decimals.
formatPrice(price) == Div(MathRound(Mul(price, Num(100, 1))), Num(100, 1))

\* generateReadmeModelsSection(allModels, timestamp): the rows of the three
\* tables.
generateReadmeModelsSection(allModels, timestamp) ==
    LET groups == groupModelsByProvider(allModels)
        formatTableRow(e) ==
            [name |-> e.name,
             charsPerToken |-> Get(e.config, "charsPerToken"),
             price |-> formatPrice(Get(e.config, "inputCostPerMillion"))]
    IN  [type |-> "section", timestamp |-> timestamp,
         tables |-> [g \in {"openai", "anthropic", "google"} |->
                       [i \in 1..Len(groups[g]) |-> formatTableRow(groups[g][i])]]]

\* Whether generateReadmeModelsSection throws: toFixed is no method of a
\* price that is no number.
ReadmeSectionThrows(allModels) ==
    \E i \in 1..Len(allModels) :
        /\ GroupOf(allModels[i].name) # "none"
        /\ Get(allModels[i].config, "inputCostPerMillion").type
              \notin {"number", "NaN", "Infinity"}

(***************************************************************************)
(* scripts/update-pricing.ts: what the providers' pages yield.             *)
(***************************************************************************)
\* Model names as the pages give them: 'GPT-4o' and 'o5' (OpenAI),
\* 'Opus 4.5' and 'Claude 3' (Anthropic), 'gemini-3-preview' and 'imagen'
\* (Google).
RawNames(provider) ==
    CASE provider = "openai" ->
            {<<"G", "P", "T", "-", "4", "o">>, <<"o", "5">>}
      [] provider = "anthropic" ->
            {<<"O", "p", "u", "s", " ", "4", ".", "5">>,
             <<"C", "l", "a", "u", "d", "e", " ", "3">>}
      [] provider = "google" ->
            {<<"g", "e", "m", "i", "n", "i", "-", "3", "-", "p", "r", "e", "v", "i", "e", "w">>,
             <<"i", "m", "a", "g", "e", "n">>}

\* input_cost_per_million as extracted: 3, 0.01, 0.005, 501, missing, 'N/A'.
Prices ==
    {Num(3, 1), Num(1, 100), Num(1, 200), Num(501, 1), Undefined,
     Str(<<"N", "/", "A">>)}

Extracted(provider) ==
    {[model_name |-> n, input_cost_per_million |-> p] :
        n \in RawNames(provider), p \in Prices}

Array(items) == [type |-> "array", items |-> items]

\* What firecrawl.extract does: it throws, or resolves to a result without
\* success, without data.models, or with models.
FetchOutcomes(provider) ==
    {[kind |-> "exception"],
     [kind |-> "result", success |-> FALSE, models |-> Undefined],
     [kind |-> "result", success |-> TRUE, models |-> Undefined]}
    \cup {[kind |-> "result", success |-> TRUE, models |-> Array(l)] :
            l \in UNION {[1..n -> Extracted(provider)] : n \in 0..MaxScraped}}

\* new Date().toISOString().split('T')[0]
Timestamp == "2025-12-25"

(***************************************************************************)
(* scripts/update-pricing.ts: main.                                        *)
(***************************************************************************)
\* An empty Map in place of the existing models.
NoExistingModels == <<>>

\* for (const [name, config] of Object.entries(DEFAULT_MODELS)) allModels.set(...)
ExistingModels ==
    LET keys == ObjectKeys(DEFAULT_MODELS)
    IN  [i \in 1..Len(keys) |->
            Entry(Spell(keys[i]),
                  Config(Get(Get(DEFAULT_MODELS, keys[i]), "charsPerToken"),
                         Get(Get(DEFAULT_MODELS, keys[i]), "inputCostPerMillion")))]

\* The body of for (const [name, config] of models) in main: the counters,
\* the log and allModels.set(name, config).
RECURSIVE MergeInto(_, _)
MergeInto(r, scraped) ==
    IF scraped = <<>> THEN r
    ELSE LET name == Head(scraped).name
             config == Head(scraped).config
             counted ==
                 IF MapHas(r.allModels, name)
                 THEN IF StrictNotEqual(
                             Get(MapGet(r.allModels, name), "inputCostPerMillion"),
                             Get(config, "inputCostPerMillion"))
                      THEN [r EXCEPT !.updatedCount = @ + 1]
                      ELSE r
                 ELSE [r EXCEPT !.addedCount = @ + 1, !.added = @ \cup {name}]
         IN  MergeInto([counted EXCEPT !.allModels = MapSet(@, name, config)],
                       Tail(scraped))

\* A rejected fetch without the try / catch: main rejects, and
\* main().catch exits with code 1.
Uncaught(r, provider) ==
    [r EXCEPT !.pc = "fatal", !.failed = @ \cup {provider}]

\* catch (error) { console.error(...) }: on to the next provider.
Caught(r, provider) == [r EXCEPT !.failed = @ \cup {provider}]

\* const apiKey = process.env.FIRECRAWL_API_KEY; ...; the existing models
Main ==
    /\ run.pc = "main"
    /\ \E apiKey \in BOOLEAN :
          run' = IF ~apiKey
                 THEN [run EXCEPT !.pc = "exit1"]
                 ELSE [run EXCEPT !.pc = "fetch", !.allModels = ExistingModels]
    /\ UNCHANGED <<text, model, running, held, DEFAULT_MODELS, out, first, repeated, last, attempt>>

\* One turn of for (const [provider, url] of Object.entries(PROVIDER_URLS))
Fetch ==
    /\ run.pc = "fetch"
    /\ LET provider == PROVIDER_URLS[run.next]
           turned == [run EXCEPT
                        !.fetched = Append(@, provider),
                        !.next = @ + 1,
                        !.pc = IF run.next = Len(PROVIDER_URLS)
                               THEN "generate" ELSE "fetch"]
       IN  \E outcome \in FetchOutcomes(provider) :
              run' =
                 IF outcome.kind = "exception"
                 THEN Caught([turned EXCEPT !.latest = Null], provider)
                 ELSE LET scraped == fetchProviderPricing(provider, outcome)
                          warned ==
                              IF ~outcome.success \/ outcome.models = Undefined
                              THEN [turned EXCEPT !.failed = @ \cup {provider}]
                              ELSE turned
                      IN  MergeInto(
                              [warned EXCEPT
                                 !.latest = [type |-> "fetch",
                                             provider |-> provider,
                                             result |-> outcome,
                                             models |-> scraped]],
                              scraped)
    /\ UNCHANGED <<text, model, running, held, DEFAULT_MODELS, out, first, repeated, last, attempt>>

\* const content = generateModelsFile(allModels, timestamp);
\* fs.writeFileSync(outputPath, content, 'utf-8')
WriteModelsFile ==
    /\ run.pc = "generate"
    /\ run' = [run EXCEPT !.pc = "readme",
                          !.file = generateModelsFile(run.allModels, Timestamp)]
    /\ UNCHANGED <<text, model, running, held, DEFAULT_MODELS, out, first, repeated, last, attempt>>

\* updateReadme(allModels, timestamp, readmePath): the section is generated
\* first, then written where both markers are found.
UpdateReadme ==
    /\ run.pc = "readme"
    /\ \E markers \in BOOLEAN :
          run' = IF ReadmeSectionThrows(run.allModels)
                 THEN [run EXCEPT !.pc = "fatal"]
                 ELSE IF ~markers
                 THEN [run EXCEPT !.pc = "done"]
                 ELSE [run EXCEPT
                         !.pc = "done",
                         !.readme = generateReadmeModelsSection(run.allModels,
                                                                Timestamp)]
    /\ UNCHANGED <<text, model, running, held, DEFAULT_MODELS, out, first, repeated, last, attempt>>

InitRun == Init /\ text = <<>> /\ model = "gpt-4o"

NextRun == Main \/ Fetch \/ WriteModelsFile \/ UpdateReadme

\* One run of the pricing-update script.
SpecRun == InitRun /\ [][NextRun]_vars

(***************************************************************************)
(* What the properties below are stated with.                              *)
(***************************************************************************)
Registered == OwnKeys(models)

\* The ratio and the price the table gives a registered identifier.
CharsPerTokenOf(m) == models.props[m].props.charsPerToken
PriceOf(m) == models.props[m].props.inputCostPerMillion

Returned(c) == c.outcome.kind = "return"
Threw(c) == c.outcome.kind = "throw"

\* A whole number, as a JavaScript value.
IsInteger(v) == IsNum(v) /\ v.d = 1

\* The surrogate pairs of a text: a high surrogate right before a low one.
PairStarts(t) == {i \in 1..(Len(t) - 1) : t[i] = "H" /\ t[i + 1] = "L"}

\* Every surrogate of the text is part of a pair.
WellFormed(t) ==
    \A i \in 1..Len(t) :
        /\ t[i] = "H" => i \in PairStarts(t)
        /\ t[i] = "L" => (i - 1) \in PairStarts(t)

\* The code points of a well-formed text: its units that are no surrogates and
\* its surrogate pairs.
CodePointCount(t) ==
    Cardinality({i \in 1..Len(t) : t[i] = "a"}) + Cardinality(PairStarts(t))

\* For a result v of a call with a registered model: tokens * charsPerToken
\* and characterCount, both scaled by the denominator of charsPerToken, so
\* that tokens >= characterCount / charsPerToken is TokensScaled >= CharsScaled.
TokensScaled(v, m) == v.estimatedTokens.n * CharsPerTokenOf(m).n
UnitScaled(m) == CharsPerTokenOf(m).n
CharsScaled(v, m) == v.characterCount.n * CharsPerTokenOf(m).d

WholeCounts(v) == IsInteger(v.estimatedTokens) /\ IsInteger(v.characterCount)

(***************************************************************************)
(* C1: for a registered model and no rounding argument, estimatedTokens is *)
(* the smallest integer greater than or equal to                           *)
(* characterCount / charsPerToken.                                         *)
(***************************************************************************)
C1_DefaultIsCeil ==
    (model \in Registered /\ out.rounding = "undefined") =>
        /\ Returned(out)
        /\ LET v == out.outcome.value
           IN  /\ WholeCounts(v)
               /\ v.characterCount.n = countCodePoints(text)
               /\ TokensScaled(v, model) >= CharsScaled(v, model)
               /\ TokensScaled(v, model) - UnitScaled(model) < CharsScaled(v, model)

\* 4 characters at 3.5 characters per token: 2 tokens.
C1_Witness ==
    /\ model = "claude-opus-4.5"
    /\ out.rounding = "undefined"
    /\ Returned(out)
    /\ out.outcome.value.characterCount = Num(4, 1)
    /\ out.outcome.value.estimatedTokens = Num(2, 1)

(***************************************************************************)
(* C2: characterCount is the number of code points, not of code units: for *)
(* a well-formed text it is the number of code units less the number of    *)
(* surrogate pairs, each pair adding exactly 1.                            *)
(***************************************************************************)
C2_CountsCodePoints ==
    (Returned(out) /\ WellFormed(text)) =>
        /\ out.outcome.value.characterCount =
              Num(Len(text) - Cardinality(PairStarts(text)), 1)
        /\ out.outcome.value.characterCount = Num(CodePointCount(text), 1)

\* Two characters outside the Basic Multilingual Plane: 4 code units, count 2.
C2_Witness ==
    /\ text = <<"H", "L", "H", "L">>
    /\ Returned(out)
    /\ out.outcome.value.characterCount = Num(2, 1)

(***************************************************************************)
(* C3: for every identifier that is not registered, whatever the text and  *)
(* the rounding, estimate fails with the error getModelConfig raises for   *)
(* it, nothing added, and the error carries the identifier and every       *)
(* registered identifier, those getAvailableModels returns.                *)
(***************************************************************************)
Pieces(msg) == {msg[i] : i \in 1..Len(msg)}

C3_UnknownModelFails ==
    (model \notin Registered /\ out.rounding # "none") =>
        /\ Threw(out)
        /\ out.outcome = getModelConfig(model)
        /\ out.outcome.error = "Error"
        /\ model \in Pieces(out.outcome.message)
        /\ Registered \subseteq Pieces(out.outcome.message)
        /\ Pieces(getAvailableModels.value) \subseteq Pieces(out.outcome.message)

(***************************************************************************)
(* C4: for a registered model and each of ceil, round, floor and no        *)
(* rounding, the empty text gives characterCount 0, estimatedTokens 0 and  *)
(* estimatedInputCost 0.                                                   *)
(***************************************************************************)
C4_EmptyTextIsZero ==
    (/\ model \in Registered
     /\ text = <<>>
     /\ out.rounding \in {"ceil", "round", "floor", "undefined"}) =>
        /\ Returned(out)
        /\ out.outcome.value.characterCount = Num(0, 1)
        /\ out.outcome.value.estimatedTokens = Num(0, 1)
        /\ out.outcome.value.estimatedInputCost = Num(0, 1)

C4_Witness ==
    /\ model = "gpt-4o"
    /\ text = <<>>
    /\ out.rounding = "ceil"
    /\ Returned(out)
    /\ out.outcome.value.estimatedInputCost = Num(0, 1)

(***************************************************************************)
(* C5: for a text and a registered model, the results of estimate with     *)
(* floor, round and ceil have tokens(floor) <= tokens(round) <=            *)
(* tokens(ceil); tokens(ceil) = tokens(floor) exactly when                 *)
(* characterCount / charsPerToken is an integer, and otherwise             *)
(* tokens(ceil) = tokens(floor) + 1.  (The first call and the latest call  *)
(* of a behaviour are any two of the three.)                               *)
(***************************************************************************)
Has(r) == first.rounding = r \/ out.rounding = r
TokensWith(r) ==
    IF first.rounding = r THEN first.outcome.value.estimatedTokens.n
    ELSE out.outcome.value.estimatedTokens.n

RatioIsInteger(v, m) == CharsScaled(v, m) % UnitScaled(m) = 0

C5_RoundingOrder ==
    (model \in Registered /\ first # NoCall) =>
        /\ Returned(first) /\ Returned(out)
        /\ WholeCounts(first.outcome.value) /\ WholeCounts(out.outcome.value)
        /\ (Has("floor") /\ Has("round")) => TokensWith("floor") <= TokensWith("round")
        /\ (Has("round") /\ Has("ceil")) => TokensWith("round") <= TokensWith("ceil")
        /\ (Has("floor") /\ Has("ceil")) =>
              /\ TokensWith("floor") <= TokensWith("ceil")
              /\ (TokensWith("ceil") = TokensWith("floor"))
                    <=> RatioIsInteger(out.outcome.value, model)
              /\ (TokensWith("ceil") # TokensWith("floor"))
                    => TokensWith("ceil") = TokensWith("floor") + 1

\* 4 characters at 4 characters per token: floor and ceil are both 1.
C5_Witness ==
    /\ model = "gpt-4o"
    /\ first.rounding = "floor" /\ Returned(first)
    /\ out.rounding = "ceil" /\ Returned(out)
    /\ out.outcome.value.characterCount = Num(4, 1)
    /\ first.outcome.value.estimatedTokens = Num(1, 1)
    /\ out.outcome.value.estimatedTokens = Num(1, 1)

(***************************************************************************)
(* C6: with rounding 'round' (and a registered model), estimatedTokens is  *)
(* the integer nearest to characterCount / charsPerToken, and a quotient   *)
(* exactly half way between two integers gives the larger one:             *)
(* -1/2 < tokens - quotient <= 1/2.                                        *)
(***************************************************************************)
C6_RoundNearestHalfUp ==
    (model \in Registered /\ out.rounding = "round") =>
        /\ Returned(out)
        /\ LET v == out.outcome.value
               diff == TokensScaled(v, model) - CharsScaled(v, model)
           IN  /\ WholeCounts(v)
               /\ v.characterCount.n = countCodePoints(text)
               /\ -UnitScaled(model) < 2 * diff
               /\ 2 * diff <= UnitScaled(model)

\* 2 characters at 4 characters per token: the tie 0.5 gives 1.
C6_Witness ==
    /\ model = "gpt-4o"
    /\ text = <<"a", "a">>
    /\ out.rounding = "round"
    /\ Returned(out)
    /\ out.outcome.value.estimatedTokens = Num(1, 1)

(***************************************************************************)
(* C7: with rounding 'floor' (and a registered model), estimatedTokens is  *)
(* the largest integer less than or equal to characterCount /              *)
(* charsPerToken; a text of fewer than charsPerToken characters gives 0    *)
(* tokens and cost 0.                                                      *)
(***************************************************************************)
C7_FloorLargestBelow ==
    (model \in Registered /\ out.rounding = "floor") =>
        /\ Returned(out)
        /\ LET v == out.outcome.value
           IN  /\ WholeCounts(v)
               /\ v.characterCount.n = countCodePoints(text)
               /\ TokensScaled(v, model) <= CharsScaled(v, model)
               /\ CharsScaled(v, model) < TokensScaled(v, model) + UnitScaled(model)
               /\ CharsScaled(v, model) < UnitScaled(model) =>
                     /\ v.estimatedTokens = Num(0, 1)
                     /\ v.estimatedInputCost = Num(0, 1)

\* 3 characters at 3.5 characters per token: 0 tokens, cost 0.
C7_Witness ==
    /\ model = "claude-sonnet-4"
    /\ out.rounding = "floor"
    /\ Returned(out)
    /\ out.outcome.value.characterCount = Num(3, 1)
    /\ out.outcome.value.estimatedTokens = Num(0, 1)
    /\ out.outcome.value.estimatedInputCost = Num(0, 1)

(***************************************************************************)
(* C8: in every result, estimatedInputCost = estimatedTokens *             *)
(* inputCostPerMillion / 1,000,000 for the estimatedTokens of the result   *)
(* (the count after rounding) and the price the table gives the requested  *)
(* model.  Where the table has no entry of its own for the requested       *)
(* model there is no price, and the product is NaN.                        *)
(***************************************************************************)
C8_CostFromRoundedTokens ==
    Returned(out) =>
        LET v == out.outcome.value
        IN  IF model \in Registered
            THEN /\ IsInteger(v.estimatedTokens)
                 /\ IsNum(v.estimatedInputCost)
                 /\ v.estimatedInputCost.n * 1000000 * PriceOf(model).d
                       = v.estimatedTokens.n * PriceOf(model).n * v.estimatedInputCost.d
            ELSE v.estimatedInputCost = NaN

\* 1 character at 4 characters per token and 2.50 per million: 1 token after
\* rounding up (0.25 before), cost 2.5 / 1,000,000.
C8_Witness ==
    /\ model = "gpt-4o"
    /\ text = <<"a">>
    /\ out.rounding = "ceil"
    /\ Returned(out)
    /\ out.outcome.value.estimatedTokens = Num(1, 1)
    /\ out.outcome.value.estimatedInputCost = Num(1, 400000)

(***************************************************************************)
(* C9: every attempt to add, replace or delete an entry of DEFAULT_MODELS  *)
(* or to assign a field of one of its config objects is rejected and       *)
(* changes nothing: after any attempts the table is the one loaded, and    *)
(* what estimate, getModelConfig and getAvailableModels returned, before   *)
(* the attempts or between them, is what they return now.                  *)
(***************************************************************************)
EstimateNow(r) == estimate([text |-> text, model |-> model, rounding |-> r])

Rejected == Throw("TypeError", <<>>)

C11_RegistryUnchanged ==
    (out # NoCall \/ last.op # "none") =>
        /\ DEFAULT_MODELS = LoadModels
        /\ ObjectKeys(DEFAULT_MODELS) = ObjectKeys(models)
        /\ \A k \in Registered :
              /\ Get(Get(DEFAULT_MODELS, k), "charsPerToken") = CharsPerTokenOf(k)
              /\ Get(Get(DEFAULT_MODELS, k), "inputCostPerMillion") = PriceOf(k)

\* estimate and getModelConfig both failed for an identifier the table lacks.
C11_Witness ==
    /\ model = "unknown-model"
    /\ Threw(out)
    /\ last.op = "getModelConfig"
    /\ Threw(last)
    /\ OwnKeys(DEFAULT_MODELS) = Registered

(***************************************************************************)
(* C12: for a registered model, every text (the empty one, one of units    *)
(* that are no surrogates such as spaces, one of the greatest length) and  *)
(* every rounding value, estimate returns; when estimate fails the model   *)
(* is not registered and the failure is the one of the lookup.             *)
(***************************************************************************)
C12_RegisteredNeverFails ==
    /\ (model \in Registered /\ out.rounding # "none") => Returned(out)
    /\ Threw(out) =>
          /\ model \notin Registered
          /\ out.outcome = getModelConfig(model)

\* A text of the greatest length and a rounding that is none of the three.
C12_Witness ==
    /\ model = "gpt-4.1-mini"
    /\ Len(text) = MaxLen
    /\ out.rounding = "up"
    /\ Returned(out)
    /\ out.outcome.value.characterCount = Num(MaxLen, 1)

(***************************************************************************)
(* C13: getAvailableModels returns every registered identifier exactly     *)
(* once and nothing else, and getModelConfig(m), hence estimate with model *)
(* m, returns exactly when m is in the list getAvailableModels returns.    *)
(***************************************************************************)
C13_ListIsLookupDomain ==
    /\ last.op = "getAvailableModels" =>
          /\ Returned(last)
          /\ Pieces(last.outcome.value) = Registered
          /\ Len(last.outcome.value) = Cardinality(Registered)
    /\ last.op = "getModelConfig" =>
          (Returned(last) <=> model \in Pieces(getAvailableModels.value))
    /\ out.rounding # "none" =>
          (Returned(out) <=> model \in Pieces(getAvailableModels.value))

(***************************************************************************)
(* C14: in every result of estimate the model field is the identifier      *)
(* passed in and the charsPerToken field is the charsPerToken of the entry *)
(* getModelConfig returns for that identifier, the value the character     *)
(* count of the result was divided by to give its estimatedTokens.         *)
(***************************************************************************)
C14_EchoesModelAndRatio ==
    Returned(out) =>
        LET v == out.outcome.value
            looked == getModelConfig(model)
        IN  /\ v.model = model
            /\ looked.kind = "return"
            /\ v.charsPerToken = Get(looked.value, "charsPerToken")
            /\ model \in Registered => v.charsPerToken = CharsPerTokenOf(model)
            /\ v.estimatedTokens =
                  ApplyRounding(RoundingOf([rounding |-> out.rounding]),
                                Div(v.characterCount, v.charsPerToken))

\* 4 characters at the 3.5 characters per token of the requested model.
C14_Witness ==
    /\ model = "claude-haiku-3.5"
    /\ out.rounding = "floor"
    /\ Returned(out)
    /\ out.outcome.value.model = "claude-haiku-3.5"
    /\ out.outcome.value.charsPerToken = Num(7, 2)
    /\ out.outcome.value.characterCount = Num(4, 1)
    /\ out.outcome.value.estimatedTokens = Num(1, 1)

(***************************************************************************)
(* C15: every result estimate returns has characterCount an integer >= 0,  *)
(* estimatedTokens an integer >= 0, estimatedInputCost >= 0 and            *)
(* charsPerToken > 0.                                                      *)
(***************************************************************************)
C15_ResultRanges ==
    Returned(out) =>
        LET v == out.outcome.value
        IN  /\ IsInteger(v.characterCount) /\ v.characterCount.n >= 0
            /\ IsInteger(v.estimatedTokens) /\ v.estimatedTokens.n >= 0
            /\ IsNum(v.estimatedInputCost) /\ v.estimatedInputCost.n >= 0
            /\ IsNum(v.charsPerToken) /\ v.charsPerToken.n > 0

(***************************************************************************)
(* C16: for every identifier getModelConfig fails for, the list of         *)
(* identifiers in the error is complete and in the order of the table's    *)
(* entries, the order getAvailableModels returns.                          *)
(***************************************************************************)
\* The identifiers listed in an error message, every second piece after
\* "Unknown model: \"", the identifier and "\". Available models: ".
AvailableIn(msg) == [i \in 1..((Len(msg) - 2) \div 2) |-> msg[2 * i + 2]]

IsSorted(ks) == \A i \in 1..(Len(ks) - 1) : Before(ks[i], ks[i + 1])

Complete(ks) == Pieces(ks) = Registered /\ Len(ks) = Cardinality(Registered)

C16_ListInTableOrder ==
    (last.op = "getModelConfig" /\ Threw(last)) =>
        LET ks == AvailableIn(last.outcome.message)
        IN  /\ Complete(ks)
            /\ ks = ObjectKeys(models)
            /\ ks = getAvailableModels.value
            /\ \A i \in 1..(Len(ks) - 1) : last.outcome.message[2 * i + 3] = ", "

\* The error for 'GPT-4o' lists gpt-4o first and claude-haiku-3.5 last.
C16_Witness ==
    /\ model = "GPT-4o"
    /\ last.op = "getModelConfig"
    /\ Threw(last)
    /\ AvailableIn(last.outcome.message)[1] = "gpt-4o"
    /\ AvailableIn(last.outcome.message)[7] = "claude-haiku-3.5"

\* C16 as stated: for every identifier getModelConfig fails for, the list of
\* identifiers in the error is sorted and complete.
C16_ListSorted ==
    (last.op = "getModelConfig" /\ Threw(last)) =>
        /\ Complete(AvailableIn(last.outcome.message))
        /\ IsSorted(AvailableIn(last.outcome.message))

(***************************************************************************)
(* C17: a rounding that is none of 'ceil', 'round', 'floor', an omitted    *)
(* one included, does not make estimate fail, and the outcome of the call  *)
(* is in every field the outcome of the same call with rounding 'ceil'.    *)
(* (The first and the latest call of a behaviour are the two calls.)       *)
(***************************************************************************)
OtherRoundings == Roundings \ {"ceil", "round", "floor"}

C17_OtherRoundingIsCeil ==
    /\ (model \in Registered /\ out.rounding \in OtherRoundings) => Returned(out)
    /\ (first.rounding = "ceil" /\ out.rounding \in OtherRoundings) =>
          out.outcome = first.outcome
    /\ (first.rounding \in OtherRoundings /\ out.rounding = "ceil") =>
          out.outcome = first.outcome

\* 1 character at 4 characters per token: 1 token with 'ceil' and with 'up'
\* (0 with 'round' and with 'floor').
C17_Witness ==
    /\ model = "gpt-4o"
    /\ text = <<"a">>
    /\ first.rounding = "ceil"
    /\ out.rounding = "up"
    /\ Returned(out)
    /\ out.outcome.value.estimatedTokens = Num(1, 1)
    /\ first.outcome.value.estimatedTokens = Num(1, 1)

(***************************************************************************)
(* C18: of the calls of estimate in progress at the same time, in every    *)
(* interleaving of their statements, each ends with the outcome (result or *)
(* error) the same call has when it runs alone, and the table is the one   *)
(* loaded, before, during and after the calls.                             *)
(***************************************************************************)
Alone(c) ==
    estimate([text |-> text, model |-> model, rounding |-> running[c].input])

C18_ConcurrentCallsAsAlone ==
    /\ DEFAULT_MODELS = LoadModels
    /\ \A c \in Calls :
          running[c].pc = "done" => running[c].outcome = Alone(c)

\* Two calls that were in progress at the same time, one rounding down and one
\* rounding up, returned 0 and 1 tokens for the same 1 character.
C18_Witness ==
    /\ model = "gpt-4o"
    /\ text = <<"a">>
    /\ \A c \in Calls : running[c].pc = "done" /\ running[c].met
    /\ running["call1"].input = "floor"
    /\ running["call2"].input = "ceil"
    /\ running["call1"].outcome.value.estimatedTokens = Num(0, 1)
    /\ running["call2"].outcome.value.estimatedTokens = Num(1, 1)

(***************************************************************************)
(* C19: for a registered model and a text whose estimatedTokens is at      *)
(* least 1, estimatedInputCost is greater than 0; the cost is 0 only when  *)
(* estimatedTokens is 0 or the price of the model is 0.                    *)
(***************************************************************************)
C19_CostPositive ==
    (model \in Registered /\ Returned(out)) =>
        LET v == out.outcome.value
        IN  /\ IsInteger(v.estimatedTokens)
            /\ IsNum(v.estimatedInputCost)
            /\ v.estimatedTokens.n >= 1 => v.estimatedInputCost.n > 0
            /\ v.estimatedInputCost = Num(0, 1) =>
                  (v.estimatedTokens = Num(0, 1) \/ PriceOf(model) = Num(0, 1))

\* 1 token at the lowest price, 0.15 per million: cost 0.00000015.
C19_Witness ==
    /\ model = "gpt-4o-mini"
    /\ Returned(out)
    /\ out.outcome.value.estimatedTokens = Num(1, 1)
    /\ out.outcome.value.estimatedInputCost = Num(3, 20000000)

(***************************************************************************)
(* C20: every entry of the table has charsPerToken > 0 and                 *)
(* inputCostPerMillion >= 0; the division in estimate is not by zero and   *)
(* not by a negative number, and the token count is not negative and not   *)
(* undefined; for a registered model the divisor is the positive ratio of  *)
(* its entry and the count an integer >= 0.                                *)
(***************************************************************************)
Negative(v) == IsNum(v) /\ v.n < 0

C20_EntriesPositive ==
    /\ \A k \in OwnKeys(DEFAULT_MODELS) :
          LET entry == Get(DEFAULT_MODELS, k)
          IN  /\ IsNum(Get(entry, "charsPerToken"))
              /\ Get(entry, "charsPerToken").n > 0
              /\ IsNum(Get(entry, "inputCostPerMillion"))
              /\ Get(entry, "inputCostPerMillion").n >= 0
    /\ Returned(out) =>
          LET v == out.outcome.value
          IN  /\ v.charsPerToken # Num(0, 1) /\ ~Negative(v.charsPerToken)
              /\ v.estimatedTokens # Undefined /\ ~Negative(v.estimatedTokens)
              /\ model \in Registered =>
                    /\ IsNum(v.charsPerToken) /\ v.charsPerToken.n > 0
                    /\ IsInteger(v.estimatedTokens) /\ v.estimatedTokens.n >= 0

\* 3 characters divided by the 4 of gpt-4.1 and rounded up: 1 token.
C20_Witness ==
    /\ model = "gpt-4.1"
    /\ out.rounding = "ceil"
    /\ Returned(out)
    /\ out.outcome.value.characterCount = Num(3, 1)
    /\ out.outcome.value.charsPerToken = Num(4, 1)
    /\ out.outcome.value.estimatedTokens = Num(1, 1)

(***************************************************************************)
(* C21: an identifier that differs from a registered one only in letter    *)
(* case ('GPT-4o') or by surrounding whitespace (' gpt-4o') is unknown:    *)
(* getModelConfig and estimate fail for it with the unknown-model error,   *)
(* which names the identifier as it was passed.                            *)
(***************************************************************************)
NearMisses == {"GPT-4o", " gpt-4o"}

IsModelNotFound(o, m) ==
    /\ o.kind = "throw"
    /\ o.error = "Error"
    /\ o.message[1] = "Unknown model: \""
    /\ o.message[2] = m

C21_LookupIsExact ==
    model \in NearMisses =>
        /\ TrimLowerCase(model) \in Registered
        /\ model \notin Registered
        /\ last.op = "getModelConfig" => IsModelNotFound(last.outcome, model)
        /\ out.rounding # "none" => IsModelNotFound(out.outcome, model)

\* Both getModelConfig(' gpt-4o') and estimate with model ' gpt-4o' failed.
C21_Witness ==
    /\ model = " gpt-4o"
    /\ last.op = "getModelConfig"
    /\ IsModelNotFound(last.outcome, " gpt-4o")
    /\ out.rounding = "ceil"
    /\ IsModelNotFound(out.outcome, " gpt-4o")

(***************************************************************************)
(* C22: the list getAvailableModels returns has an OpenAI identifier       *)
(* (prefix 'gpt-' or 'o'), an Anthropic identifier (prefix 'claude-') and  *)
(* a Google identifier (prefix 'gemini-').                                 *)
(***************************************************************************)
HasPrefix(k, prefix) == StartsWith(Spell(k), prefix)

C22_ThreeProviders ==
    last.op = "getAvailableModels" =>
        LET ks == Pieces(last.outcome.value)
        IN  /\ \E k \in ks : \/ HasPrefix(k, <<"g", "p", "t", "-">>)
                             \/ HasPrefix(k, <<"o">>)
            /\ \E k \in ks : HasPrefix(k, <<"c", "l", "a", "u", "d", "e", "-">>)
            /\ \E k \in ks : HasPrefix(k, <<"g", "e", "m", "i", "n", "i", "-">>)

(***************************************************************************)
(* C23: for every identifier that is no own key of the table, the names    *)
(* every object inherits ('constructor', ...) included, getModelConfig and *)
(* estimate fail with the unknown-model error: neither returns.            *)
(***************************************************************************)
C23_OnlyOwnKeysFound ==
    model \notin OwnKeys(DEFAULT_MODELS) =>
        /\ last.op = "getModelConfig" =>
              /\ ~Returned(last)
              /\ IsModelNotFound(last.outcome, model)
        /\ out.rounding # "none" =>
              /\ ~Returned(out)
              /\ IsModelNotFound(out.outcome, model)

(***************************************************************************)
(* C24: for every text, well-formed or not, characterCount counts each     *)
(* high surrogate right before a low surrogate together with it as one     *)
(* character and every other code unit, an unpaired surrogate included, as *)
(* one character; so ceil(length / 2) <= characterCount <= length.         *)
(***************************************************************************)
\* The code units that are not the second half of a surrogate pair.
CharacterStarts(t) == {i \in 1..Len(t) : (i - 1) \notin PairStarts(t)}

C24_CountsAnyString ==
    Returned(out) =>
        LET count == out.outcome.value.characterCount
        IN  /\ IsInteger(count)
            /\ count.n = Cardinality(CharacterStarts(text))
            /\ count.n = Len(text) - Cardinality(PairStarts(text))
            /\ count.n = countCodePoints(text)
            /\ 2 * count.n >= Len(text)
            /\ count.n <= Len(text)

\* A lone low surrogate, a lone high surrogate and a pair: 3 characters.
C24_Witness ==
    /\ text = <<"L", "H", "H", "L">>
    /\ ~WellFormed(text)
    /\ Returned(out)
    /\ out.outcome.value.characterCount = Num(3, 1)

(***************************************************************************)
(* C25: for a registered model and one rounding, of two calls of estimate  *)
(* the one with the smaller or equal characterCount has the smaller or     *)
(* equal estimatedTokens and estimatedInputCost, and two texts with the    *)
(* same characterCount have the same tokens and cost, whatever their       *)
(* content.  (The first and the latest call of a behaviour are the two.)   *)
(***************************************************************************)
\* a <= b for two numbers.
Leq(a, b) == a.n * b.d <= b.n * a.d

SmallerGivesSmaller(a, b) ==
    Leq(a.characterCount, b.characterCount) =>
        /\ Leq(a.estimatedTokens, b.estimatedTokens)
        /\ Leq(a.estimatedInputCost, b.estimatedInputCost)

C25_Monotone ==
    (model \in Registered /\ first # NoCall /\ first.rounding = out.rounding) =>
        /\ Returned(first) /\ Returned(out)
        /\ LET a == first.outcome.value
               b == out.outcome.value
           IN  /\ IsNum(a.estimatedTokens) /\ IsNum(a.estimatedInputCost)
               /\ IsNum(b.estimatedTokens) /\ IsNum(b.estimatedInputCost)
               /\ SmallerGivesSmaller(a, b)
               /\ SmallerGivesSmaller(b, a)
               /\ a.characterCount = b.characterCount =>
                     /\ a.estimatedTokens = b.estimatedTokens
                     /\ a.estimatedInputCost = b.estimatedInputCost

\* 'a' and a surrogate pair, 1 character each, then 2 characters: with
\* 'round' at 3.5 characters per token 0 tokens and then 1.
C25_Witness ==
    /\ model = "claude-opus-4.5"
    /\ first # NoCall
    /\ first.rounding = "round" /\ out.rounding = "round"
    /\ first.text = <<"H", "L">>
    /\ text = <<"a", "a">>
    /\ first.outcome.value.estimatedTokens = Num(0, 1)
    /\ out.outcome.value.estimatedTokens = Num(1, 1)

(***************************************************************************)
(* C26: whatever a caller does to a list getAvailableModels returned       *)
(* (adding, removing, reordering elements), the table stays the one        *)
(* loaded, a later getAvailableModels returns the registered identifiers   *)
(* in the table's order, and getModelConfig and estimate return, or fail   *)
(* with the list in the error, as they do without the change.              *)
(***************************************************************************)
C26_ReturnedListIsFresh ==
    /\ DEFAULT_MODELS = LoadModels
    /\ last.op = "getAvailableModels" =>
          last.outcome = Return(ObjectKeys(models))
    /\ last.op = "getModelConfig" =>
          /\ last.outcome = getModelConfig(model)
          /\ Threw(last) => AvailableIn(last.outcome.message) = ObjectKeys(models)
          /\ (Returned(last) /\ model \in Registered) =>
                last.outcome.value = Get(LoadModels, model)
    /\ out.rounding # "none" =>
          /\ out.outcome = EstimateNow(out.rounding)
          /\ Threw(out) => AvailableIn(out.outcome.message) = ObjectKeys(models)

\* The caller emptied part of a list and added to it; the call after that
\* returned the seven identifiers.
C26_Witness ==
    /\ held.changed
    /\ last.op = "getAvailableModels"
    /\ last.after
    /\ Len(last.outcome.value) = Cardinality(Registered)
    /\ last.outcome.value[1] = "gpt-4o"
    /\ held.items = last.outcome.value

(***************************************************************************)
(* C27: in a run of the pricing-update script that got past its start,     *)
(* every identifier of DEFAULT_MODELS is in the merged table, at its       *)
(* place, at every moment up to and after the models file is generated,    *)
(* whatever the providers returned and whichever fetches failed; what the  *)
(* merged table holds beyond them are identifiers logged as added, each    *)
(* once.                                                                   *)
(***************************************************************************)
C27_NoEntryLost ==
    run.pc \notin {"main", "exit1"} =>
        LET keys == ObjectKeys(DEFAULT_MODELS)
            merged == run.allModels
        IN  /\ Len(merged) >= Len(keys)
            /\ \A i \in 1..Len(keys) : merged[i].name = Spell(keys[i])
            /\ \A i \in (Len(keys) + 1)..Len(merged) : merged[i].name \in run.added
            /\ Cardinality(MapKeys(merged)) = Len(merged)
            /\ run.file # Null =>
                  \A k \in OwnKeys(DEFAULT_MODELS) : MapHas(merged, Spell(k))

\* The fetch of anthropic failed, openai gave gpt-4o a new price and google a
\* new model; the file was written.
C27_Witness ==
    /\ run.file # Null
    /\ "anthropic" \in run.failed
    /\ Get(MapGet(run.allModels, <<"g", "p", "t", "-", "4", "o">>),
           "inputCostPerMillion") = Num(3, 1)
    /\ <<"g", "e", "m", "i", "n", "i", "-", "3">> \in run.added
    /\ Len(run.allModels) = Len(ObjectKeys(DEFAULT_MODELS)) + 1

(***************************************************************************)
(* C28: the run fetches openai, anthropic and google, each once and in     *)
(* that order; a fetch that throws or extracts nothing leaves the run in   *)
(* the loop, and once the loop is over all three were fetched and the      *)
(* models file is written next, whichever fetches failed.  The run ends    *)
(* early only before the first fetch.                                      *)
(***************************************************************************)
Fetched == {run.fetched[i] : i \in 1..Len(run.fetched)}

C28_EveryProviderFetchedOnce ==
    /\ run.pc \in {"main", "exit1"} => run.fetched = <<>>
    /\ run.pc = "fetch" =>
          /\ run.next <= Len(PROVIDER_URLS)
          /\ run.fetched = SubSeq(PROVIDER_URLS, 1, run.next - 1)
    /\ run.pc \in {"generate", "readme", "done", "fatal"} =>
          run.fetched = PROVIDER_URLS
    /\ run.pc \in {"readme", "done", "fatal"} => run.file # Null
    /\ run.failed \subseteq Fetched

\* The fetches of openai and google failed; the file was written.
C28_Witness ==
    /\ run.pc = "done"
    /\ run.failed = {"openai", "google"}
    /\ run.fetched = <<"openai", "anthropic", "google">>
    /\ run.file # Null
    /\ run.updatedCount = 1

(***************************************************************************)
(* C29: every model in the Map fetchProviderPricing returns has a price    *)
(* that is a number p with 0.01 <= p <= 500 and a non-empty name, and so   *)
(* has every model of the merged table.                                    *)
(***************************************************************************)
PriceInRange(config) ==
    LET price == Get(config, "inputCostPerMillion")
    IN  /\ IsNum(price)
        /\ price.n * 100 >= price.d
        /\ price.n <= 500 * price.d

C29_OnlyPricedModelsAccepted ==
    /\ run.latest # Null =>
          \A i \in 1..Len(run.latest.models) :
              /\ run.latest.models[i].name # <<>>
              /\ PriceInRange(run.latest.models[i].config)
    /\ \A i \in 1..Len(run.allModels) : PriceInRange(run.allModels[i].config)

(***************************************************************************)
(* C30: every model of the merged table, when the models file is           *)
(* generated, is written to the generated table exactly once, in one of    *)
(* the three groups; so every model logged as added and every model kept   *)
(* is in the table the file defines.                                       *)
(***************************************************************************)
TimesWritten(name) ==
    Cardinality({i \in 1..Len(run.file.models) : run.file.models[i].name = name})

C30_EveryModelWritten ==
    run.file # Null =>
        /\ \A name \in MapKeys(run.allModels) :
              /\ TimesWritten(name) = 1
              /\ GroupOf(name) \in {"openai", "anthropic", "google"}
        /\ \A name \in run.added : TimesWritten(name) = 1
        /\ \A k \in OwnKeys(DEFAULT_MODELS) : TimesWritten(Spell(k)) = 1

====
